---- MODULE Spec2Model ----
(***************************************************************************)
(* Model of agent.py: a news-briefing bot.  One thread of control runs the *)
(* module-level configuration, a cold-start run of run_agent_job, the      *)
(* registration of the daily trigger and then the scheduler loop.          *)
(*                                                                         *)
(* Strings are sequences of tokens (one-character or one-word strings), so *)
(* that str.strip() and string concatenation are computed, not assumed.    *)
(* Every external service (news API, language model, webhook, clock) is    *)
(* the environment: its answer is chosen with \E from a small set.         *)
(***************************************************************************)
EXTENDS Integers, Sequences, FiniteSets, TLC

\* ---------------------------------------------------------------- bounds
\* Length of one day in scheduler ticks (one tick = one 60 s sleep).
DayLen == 3
\* Last clock value explored.
MaxTime == 7
\* Longest time, in ticks, a news-API GET may take.
MaxDelay == 1
\* Longest model completion, in tokens.
MaxTextLen == 3
\* Longest articles array whose entries are chosen independently.
MaxMixed == 2
\* Longest articles array at all (entries all alike beyond MaxMixed).
MaxArticles == 11

\* ------------------------------------------------------ program constants
\* max=10 in the request URL.
MaxResults == 10
\* The daily trigger "07:30", as a tick within the day.
TriggerAt == 1

\* The three secrets read at startup.
RequiredSecrets == {"GOOGLE_API_KEY", "GNEWS_API_KEY", "DISCORD_WEBHOOK_URL"}

\* The two fixed sentences of create_briefing_from_headlines.
NoHeadlinesText == <<"No headlines found to create a briefing.">>
ApiErrorText == <<"Could not generate the briefing due to an API error.">>

\* ------------------------------------------------------------ input sets
Whitespace == {" ", "\n"}
TextTokens == {" ", "x"}
Titles == {"", "A", "B"}

\* A JSON article object: with a title, or without one.
Articles == {[title |-> t] : t \in Titles} \cup {[description |-> "d"]}

RECURSIVE SeqsUpTo(_, _)
SeqsUpTo(S, n) ==
    IF n = 0 THEN {<<>>}
    ELSE LET shorter == SeqsUpTo(S, n - 1)
         IN shorter \cup {Append(s, x) : s \in {t \in shorter : Len(t) = n - 1}, x \in S}

ArticleArrays ==
    SeqsUpTo(Articles, MaxMixed)
        \cup {[i \in 1..n |-> a] : n \in (MaxMixed + 1)..MaxArticles, a \in Articles}

\* Every outcome of requests.get(url) followed by raise_for_status() and json().
\* What json() raises on a body that is no JSON depends on the installed
\* requests: its own JSONDecodeError, a RequestException (2.27 and later), or
\* a plain ValueError (before); the repository pins no version.
Responses ==
    {[kind |-> k] : k \in {"network_error", "http_error", "json_not_object"}}
        \cup {[kind |-> "invalid_json", request_exception |-> b] : b \in BOOLEAN}
        \cup {[kind |-> "ok", data |-> [message |-> "m"]]}
        \cup {[kind |-> "ok", data |-> [articles |-> as]] : as \in ArticleArrays}

\* Every outcome of gemini_model.generate_content(prompt) and response.text.
ModelOutcomes ==
    {[ok |-> FALSE, text |-> <<>>]}
        \cup {[ok |-> TRUE, text |-> t] : t \in SeqsUpTo(TextTokens, MaxTextLen)}

\* Every outcome of requests.post(...) followed by raise_for_status().
PostOutcomes == {"2xx", "http_error", "network_error"}

NoResponse == [kind |-> "none"]
NoModelOutcome == [ok |-> FALSE, text |-> <<>>]
NoTrigger == -1

VARIABLES
    pc,            \* position of the single thread of control
    secrets,       \* the environment variables that are set
    now,           \* the clock, in ticks
    registered,    \* the daily job has been registered with the scheduler
    next_run,      \* the job's next due time (NoTrigger before registration)
    caller,        \* who called run_agent_job: "cold", "sched" or "none"
    greeting,      \* run_agent_job: greeting
    headlines,     \* run_agent_job: headlines
    briefing,      \* run_agent_job: briefing
    full_message,  \* run_agent_job: full_message
    exc,           \* the uncaught exception that ended the process, or "none"
    response,      \* the news API's answer in this run
    modelOutcome,  \* the model's answer in this run
    postOutcome,   \* the webhook's answer in this run, or "none"
    getCalls,      \* GETs made in this run
    modelCalls,    \* model calls made in this run
    posted,        \* JSON payloads POSTed in this run
    runs,          \* runs of run_agent_job started so far
    checks,        \* calls of schedule.run_pending() so far
    lastSlot       \* the due time that caused the latest scheduled run

vars == <<pc, secrets, now, registered, next_run, caller, greeting, headlines,
          briefing, full_message, exc, response, modelOutcome, postOutcome,
          getCalls, modelCalls, posted, runs, checks, lastSlot>>

locals == <<greeting, headlines, briefing, full_message>>
traffic == <<response, modelOutcome, postOutcome, getCalls, modelCalls, posted>>
clock == <<now, registered, next_run>>
history == <<runs, checks, lastSlot>>

JobPcs == {"job_begin", "job_fetch", "job_branch", "job_send", "job_end"}
RunningPcs == JobPcs \cup {"main", "register", "loop_check", "sleep"}
StoppedPcs == {"exited", "crashed", "interrupted"}

\* ------------------------------------------------------- pure functions

\* str.strip(): drop leading and trailing whitespace.
RECURSIVE LStrip(_)
LStrip(s) == IF s # <<>> /\ Head(s) \in Whitespace THEN LStrip(Tail(s)) ELSE s

RECURSIVE RStrip(_)
RStrip(s) ==
    IF s # <<>> /\ s[Len(s)] \in Whitespace THEN RStrip(SubSeq(s, 1, Len(s) - 1)) ELSE s

Strip(s) == RStrip(LStrip(s))

\* time.strftime("%A, %B %d, %Y"): the date of the current day.
DateStr(t) == ToString(t \div DayLen)

\* greeting = f"## ... Your Morning Briefing: {today_date_str}\n"
Greeting(t) == <<"## Your Morning Briefing: ", DateStr(t), "\n">>

\* Python truthiness of a title.
Truthy(t) == t # ""

\* Variant of TitlesOf: the `if article['title']` filter is left out.
TitlesOf_NoFilter(as) == [i \in 1..Len(as) |-> as[i].title]

\* [article['title'] for article in articles if article['title']]
RECURSIVE TitlesOf(_)
TitlesOf(as) ==
    IF as = <<>> THEN <<>>
    ELSE IF Truthy(Head(as).title) THEN <<Head(as).title>> \o TitlesOf(Tail(as))
         ELSE TitlesOf(Tail(as))

\* data.get('articles', [])
ArticlesOf(data) == IF "articles" \in DOMAIN data THEN data.articles ELSE <<>>

\* fetch_important_headlines, given the outcome of the GET: what it returns
\* and the exception it lets through ("none" when it returns).  Only
\* requests.exceptions.RequestException is caught: a network failure, a
\* non-2xx status (raise_for_status) and a body that is no JSON, when json()
\* raises requests' JSONDecodeError, give [].  The ValueError of an older
\* json(), the AttributeError of a JSON body that is no object (no .get) and
\* the KeyError of an article without 'title' are not caught.
fetch_important_headlines(resp) ==
    CASE resp.kind \in {"network_error", "http_error"} ->
            [raised |-> "none", ret |-> <<>>]
      [] resp.kind = "invalid_json" ->
            IF resp.request_exception THEN [raised |-> "none", ret |-> <<>>]
            ELSE [raised |-> "ValueError", ret |-> <<>>]
      [] resp.kind = "json_not_object" ->
            [raised |-> "AttributeError", ret |-> <<>>]
      [] OTHER ->
            LET as == ArticlesOf(resp.data)
            IN IF \E i \in 1..Len(as) : "title" \notin DOMAIN as[i]
               THEN [raised |-> "KeyError", ret |-> <<>>]
               ELSE [raised |-> "none", ret |-> TitlesOf(as)]

\* Variant of create_briefing_from_headlines: the except clause is missing,
\* a failed model call propagates.
create_briefing_uncaught(hs, m) ==
    IF hs = <<>> THEN [raised |-> "none", ret |-> NoHeadlinesText, calls |-> 0]
    ELSE IF m.ok THEN [raised |-> "none", ret |-> Strip(m.text), calls |-> 1]
    ELSE [raised |-> "Exception", ret |-> <<>>, calls |-> 1]

\* create_briefing_from_headlines: the string returned, the number of model
\* calls made and the exception let through.  `except Exception` catches
\* every failure of the call, so nothing is let through.
create_briefing_from_headlines(hs, m) ==
    IF hs = <<>> THEN [raised |-> "none", ret |-> NoHeadlinesText, calls |-> 0]
    ELSE IF m.ok THEN [raised |-> "none", ret |-> Strip(m.text), calls |-> 1]
    ELSE [raised |-> "none", ret |-> ApiErrorText, calls |-> 1]

\* Variant of FullMessage: the two parts in the wrong order.
FullMessage_Reordered(g, b) == b \o g

\* full_message = greeting + briefing
FullMessage(g, b) == g \o b

\* data = {"content": briefing_text}
Payload(text) == [content |-> text]

\* Variant of send_discord_message: raise_for_status() outside the try.
send_discord_message_uncaught(outcome) ==
    IF outcome = "http_error" THEN "HTTPError" ELSE "none"

\* send_discord_message: the exception it lets through.  A failed connection
\* (requests.post) and a non-2xx status (raise_for_status) both raise a
\* RequestException, which is caught.
send_discord_message(outcome) ==
    CASE outcome = "2xx" -> "none"
      [] outcome = "http_error" -> "none"
      [] outcome = "network_error" -> "none"

\* Variant of HeadlinesTruthy: the emptiness test is missing.
HeadlinesTruthy_Always(hs) == TRUE

\* `if headlines:`
HeadlinesTruthy(hs) == hs # <<>>

\* Variant of ConfigurationLoads: the webhook URL is not looked up.
ConfigurationLoads_NoWebhook(env) == {"GOOGLE_API_KEY", "GNEWS_API_KEY"} \subseteq env

\* The module-level try block: every os.environ[...] lookup succeeds.
ConfigurationLoads(env) == RequiredSecrets \subseteq env

\* schedule: the first trigger time strictly after t.
NextTrigger(t) ==
    CHOOSE u \in (t + 1)..(t + DayLen) : u % DayLen = TriggerAt

\* schedule: the job is due.
ShouldRun(t, due) == due # NoTrigger /\ t >= due

\* Variant of Reschedule: the due time is left as it was.
Reschedule_Keeps(t, due) == due

\* schedule: after the job function returns, the job is scheduled again.
Reschedule(t, due) == NextTrigger(t)

\* --------------------------------------------------------------- Init
Init ==
    /\ pc = "startup"
    /\ secrets \in SUBSET RequiredSecrets
    /\ now \in 0..(DayLen - 1)
    /\ registered = FALSE
    /\ next_run = NoTrigger
    /\ caller = "none"
    /\ greeting = <<>>
    /\ headlines = <<>>
    /\ briefing = <<>>
    /\ full_message = <<>>
    /\ exc = "none"
    /\ response = NoResponse
    /\ modelOutcome = NoModelOutcome
    /\ postOutcome = "none"
    /\ getCalls = 0
    /\ modelCalls = 0
    /\ posted = <<>>
    /\ runs = 0
    /\ checks = 0
    /\ lastSlot = NoTrigger

\* ------------------------------------------------------------- actions

\* Lines 16-25: read the secrets; exit() on a missing one.
LoadConfiguration ==
    /\ pc = "startup"
    /\ pc' = IF ConfigurationLoads(secrets) THEN "main" ELSE "exited"
    /\ UNCHANGED <<secrets, caller, exc>>
    /\ UNCHANGED <<locals, traffic, clock, history>>

\* Line 124: the cold-start call of run_agent_job.
ColdStart ==
    /\ pc = "main"
    /\ pc' = "job_begin"
    /\ caller' = "cold"
    /\ runs' = runs + 1
    /\ UNCHANGED <<secrets, exc, checks, lastSlot>>
    /\ UNCHANGED <<locals, traffic, clock>>

\* Lines 104-106: the greeting of this run.
BeginJob ==
    /\ pc = "job_begin"
    /\ greeting' = Greeting(now)
    /\ pc' = "job_fetch"
    /\ UNCHANGED <<secrets, caller, exc, headlines, briefing, full_message>>
    /\ UNCHANGED <<traffic, clock, history>>

\* Line 108: headlines = fetch_important_headlines().
FetchHeadlines ==
    /\ pc = "job_fetch"
    /\ \E resp \in Responses, d \in 0..MaxDelay :
        LET r == fetch_important_headlines(resp)
        IN /\ now + d <= MaxTime
           /\ now' = now + d
           /\ response' = resp
           /\ getCalls' = getCalls + 1
           /\ exc' = r.raised
           /\ headlines' = r.ret
           /\ pc' = IF r.raised = "none" THEN "job_branch" ELSE "crashed"
    /\ UNCHANGED <<secrets, caller, greeting, briefing, full_message>>
    /\ UNCHANGED <<modelOutcome, postOutcome, modelCalls, posted>>
    /\ UNCHANGED <<registered, next_run, history>>

\* Lines 109-111: the truthy branch, up to full_message.
CreateBriefing ==
    /\ pc = "job_branch"
    /\ HeadlinesTruthy(headlines)
    /\ \E m \in ModelOutcomes :
        LET r == create_briefing_from_headlines(headlines, m)
        IN /\ modelOutcome' = (IF r.calls = 0 THEN modelOutcome ELSE m)
           /\ modelCalls' = modelCalls + r.calls
           /\ exc' = r.raised
           /\ briefing' = r.ret
           /\ full_message' = IF r.raised = "none" THEN FullMessage(greeting, r.ret) ELSE <<>>
           /\ pc' = IF r.raised = "none" THEN "job_send" ELSE "crashed"
    /\ UNCHANGED <<secrets, caller, greeting, headlines>>
    /\ UNCHANGED <<response, postOutcome, getCalls, posted>>
    /\ UNCHANGED <<clock, history>>

\* Line 112: send_discord_message(full_message).
SendDiscordMessage ==
    /\ pc = "job_send"
    /\ \E o \in PostOutcomes :
        LET raised == send_discord_message(o)
        IN /\ postOutcome' = o
           /\ posted' = Append(posted, Payload(full_message))
           /\ exc' = raised
           /\ pc' = IF raised = "none" THEN "job_end" ELSE "crashed"
    /\ UNCHANGED <<secrets, caller>>
    /\ UNCHANGED <<response, modelOutcome, getCalls, modelCalls>>
    /\ UNCHANGED <<locals, clock, history>>

\* Lines 113-114: the else branch.
SkipNoHeadlines ==
    /\ pc = "job_branch"
    /\ ~HeadlinesTruthy(headlines)
    /\ pc' = "job_end"
    /\ UNCHANGED <<secrets, caller, exc>>
    /\ UNCHANGED <<locals, traffic, clock, history>>

\* Line 115 and the return of run_agent_job: to line 125 after the cold
\* start, into the scheduler (which schedules the job again) otherwise.
FinishJob ==
    /\ pc = "job_end"
    /\ pc' = IF caller = "cold" THEN "register" ELSE "sleep"
    /\ next_run' = IF caller = "cold" THEN next_run ELSE Reschedule(now, next_run)
    /\ caller' = "none"
    /\ greeting' = <<>>
    /\ headlines' = <<>>
    /\ briefing' = <<>>
    /\ full_message' = <<>>
    /\ response' = NoResponse
    /\ modelOutcome' = NoModelOutcome
    /\ postOutcome' = "none"
    /\ getCalls' = 0
    /\ modelCalls' = 0
    /\ posted' = <<>>
    /\ UNCHANGED <<secrets, exc, now, registered, history>>

\* Line 125: schedule.every().day.at("07:30").do(run_agent_job).
RegisterSchedule ==
    /\ pc = "register"
    /\ registered' = TRUE
    /\ next_run' = NextTrigger(now)
    /\ pc' = "loop_check"
    /\ UNCHANGED <<secrets, caller, exc, now>>
    /\ UNCHANGED <<locals, traffic, history>>

\* Line 129: schedule.run_pending() finds the job due and calls it.
RunPendingDue ==
    /\ pc = "loop_check"
    /\ ShouldRun(now, next_run)
    /\ checks' = checks + 1
    /\ runs' = runs + 1
    /\ lastSlot' = next_run
    /\ caller' = "sched"
    /\ pc' = "job_begin"
    /\ UNCHANGED <<secrets, exc>>
    /\ UNCHANGED <<locals, traffic, clock>>

\* Line 129: schedule.run_pending() finds nothing due.
RunPendingIdle ==
    /\ pc = "loop_check"
    /\ ~ShouldRun(now, next_run)
    /\ checks' = checks + 1
    /\ pc' = "sleep"
    /\ UNCHANGED <<secrets, caller, exc, runs, lastSlot>>
    /\ UNCHANGED <<locals, traffic, clock>>

\* Line 130: time.sleep(60).
Sleep ==
    /\ pc = "sleep"
    /\ now < MaxTime
    /\ now' = now + 1
    /\ pc' = "loop_check"
    /\ UNCHANGED <<secrets, caller, exc, registered, next_run>>
    /\ UNCHANGED <<locals, traffic, history>>

\* Ctrl+C: the external interrupt.
Interrupt ==
    /\ pc \in RunningPcs
    /\ pc' = "interrupted"
    /\ UNCHANGED <<secrets, caller, exc>>
    /\ UNCHANGED <<locals, traffic, clock, history>>

Next ==
    \/ LoadConfiguration
    \/ ColdStart
    \/ BeginJob
    \/ FetchHeadlines
    \/ CreateBriefing
    \/ SendDiscordMessage
    \/ SkipNoHeadlines
    \/ FinishJob
    \/ RegisterSchedule
    \/ RunPendingDue
    \/ RunPendingIdle
    \/ Sleep
    \/ Interrupt

Spec == Init /\ [][Next]_vars

\* ------------------------------------------------------------ properties

AfterFetchPcs == {"job_branch", "job_send", "job_end"}
Configured == pc \notin {"startup", "exited"}

\* C1: in a run whose fetch returned the empty list (fetch failures
\* included), no model call and no POST is made, the run never reaches the
\* send step, and no exception ends it.
C1_EmptyFetchSkipsDownstream ==
    (pc \in AfterFetchPcs /\ headlines = <<>>) =>
        /\ modelCalls = 0
        /\ posted = <<>>
        /\ postOutcome = "none"
        /\ pc # "job_send"
        /\ exc = "none"

C1_Witness ==
    /\ pc = "job_end"
    /\ getCalls = 1
    /\ response.kind = "network_error"
    /\ headlines = <<>>

\* C2: whatever the GET's outcome, fetch_important_headlines returns (no
\* exception leaves it), and after a network, status or parse error the list
\* it returns is empty.
C2_FetchNeverRaises ==
    /\ getCalls > 0 => (exc = "none" /\ pc # "crashed")
    /\ (pc \in AfterFetchPcs
            /\ response.kind \in {"network_error", "http_error", "invalid_json"})
        => headlines = <<>>

\* C3: when headlines were found and the model call fails, the briefing is
\* the fixed API-error sentence, exactly one model call was made, nothing is
\* raised, and the run ends having POSTed exactly once, greeting + sentence.
C3_ModelFailureFallsBack ==
    (headlines # <<>> /\ modelCalls > 0 /\ ~modelOutcome.ok) =>
        /\ modelCalls = 1
        /\ exc = "none"
        /\ pc \in {"job_send", "job_end", "interrupted"}
        /\ briefing = ApiErrorText
        /\ (pc = "job_end" => posted = <<[content |-> greeting \o ApiErrorText]>>)

C3_Witness ==
    /\ pc = "job_end"
    /\ headlines # <<>>
    /\ modelCalls = 1
    /\ ~modelOutcome.ok
    /\ Len(posted) = 1

\* C4: whatever the POST's outcome, exactly one POST was attempted, nothing
\* is raised, the run is at its end, and the run made no other call than its
\* one GET and at most one model call.
C4_PostOutcomeEndsRun ==
    postOutcome # "none" =>
        /\ Len(posted) = 1
        /\ exc = "none"
        /\ pc \in {"job_end", "interrupted"}
        /\ getCalls = 1
        /\ modelCalls <= 1

C4_Witness ==
    /\ pc = "job_end"
    /\ postOutcome = "http_error"
    /\ Len(posted) = 1

\* s with its leading and trailing whitespace removed is b.
IsTrimOf(b, s) ==
    \E i, j \in 0..Len(s) :
        /\ i + j <= Len(s)
        /\ b = SubSeq(s, i + 1, Len(s) - j)
        /\ \A k \in (1..i) \cup ((Len(s) - j + 1)..Len(s)) : s[k] \in Whitespace
        /\ b # <<>> => (b[1] \notin Whitespace /\ b[Len(b)] \notin Whitespace)

\* C5: every payload POSTed has the single field content, which is the
\* run's greeting followed by the run's briefing, the briefing being the
\* model's text without its surrounding whitespace or the API-error sentence.
C5_PayloadIsGreetingPlusBriefing ==
    \A n \in 1..Len(posted) :
        LET c == posted[n].content
            b == SubSeq(c, Len(greeting) + 1, Len(c))
        IN /\ DOMAIN posted[n] = {"content"}
           /\ Len(c) >= Len(greeting)
           /\ SubSeq(c, 1, Len(greeting)) = greeting
           /\ greeting # <<>>
           /\ b = briefing
           /\ modelCalls = 1
           /\ IF modelOutcome.ok THEN IsTrimOf(b, modelOutcome.text)
                                 ELSE b = ApiErrorText

C5_Witness ==
    /\ Len(posted) = 1
    /\ modelOutcome.ok
    /\ modelOutcome.text = <<" ", "x", " ">>
    /\ posted[1].content = greeting \o <<"x">>

\* The positions of as that carry a non-empty title.
KeptPositions(as) == {i \in 1..Len(as) : as[i].title # ""}

\* C6: for a successful response whose articles all carry a title, the
\* list returned holds exactly the non-empty titles, in the response's order.
C6_FetchKeepsNonEmptyTitlesInOrder ==
    (pc \in AfterFetchPcs
        /\ response.kind = "ok"
        /\ "articles" \in DOMAIN response.data
        /\ \A i \in 1..Len(response.data.articles) :
                "title" \in DOMAIN response.data.articles[i])
    => LET as == response.data.articles
           kept == KeptPositions(as)
       IN /\ Len(headlines) = Cardinality(kept)
          /\ \A i \in kept :
                headlines[Cardinality({j \in kept : j <= i})] = as[i].title

C6_Witness ==
    /\ pc = "job_branch"
    /\ response.kind = "ok"
    /\ "articles" \in DOMAIN response.data
    /\ response.data.articles = <<[title |-> "A"], [title |-> ""]>>
    /\ headlines = <<"A">>

\* C7: the list fetch_important_headlines returns never holds more than 10
\* titles.
C7_AtMostTenTitles ==
    pc \in AfterFetchPcs => Len(headlines) <= MaxResults

\* C8: with a required secret missing, the process gets no further than its
\* exit: no run, no registration, no due-check, no GET, model call or POST.
C8_MissingSecretStopsBeforeAnything ==
    ~(RequiredSecrets \subseteq secrets) =>
        /\ pc \in {"startup", "exited"}
        /\ runs = 0
        /\ ~registered
        /\ checks = 0
        /\ getCalls = 0
        /\ modelCalls = 0
        /\ posted = <<>>

C8_Witness ==
    /\ pc = "exited"
    /\ secrets = {"GOOGLE_API_KEY", "GNEWS_API_KEY"}

\* C9: past the startup configuration, the process is running or was
\* interrupted from outside: no run's outcome ends it.
C9_OnlyInterruptStopsLoop ==
    Configured => pc \in RunningPcs \cup {"interrupted"}

\* The state part of C10.
C10_State ==
    /\ pc = "main" => runs = 0
    /\ pc \in RunningPcs \ {"main"} => runs >= 1
    /\ caller = "cold" => (runs = 1 /\ ~registered /\ checks = 0)
    /\ (registered \/ checks > 0) => runs >= 1
    /\ pc \in RunningPcs => (pc \in JobPcs <=> caller # "none")

\* The step part of C10.
C10_Step ==
    /\ runs' # runs =>
        /\ runs' = runs + 1
        /\ pc \notin JobPcs
        /\ pc' = "job_begin"
        /\ \/ pc = "main" /\ runs = 0 /\ ~registered /\ checks = 0
           \/ /\ pc = "loop_check"
              /\ registered
              /\ checks' = checks + 1
              /\ next_run % DayLen = TriggerAt
              /\ now >= next_run
              /\ next_run > lastSlot
    /\ checks' # checks =>
        /\ checks' = checks + 1
        /\ pc = "loop_check"
        /\ (registered /\ now >= next_run) => runs' = runs + 1
    /\ pc \in JobPcs => (runs' = runs /\ checks' = checks)

\* C10: the first run is the cold start, made before the registration and
\* before any due-check; every later run starts at a due-check that finds the
\* trigger due, for a trigger time later than that of any earlier run; a
\* due-check that finds the trigger due starts a run; and while a run is in
\* progress no run starts and no due-check is made.
C10_OneRunPerTrigger == []C10_State /\ [][C10_Step]_vars

C10_Witness ==
    /\ pc = "sleep"
    /\ runs = 3
    /\ lastSlot = DayLen + TriggerAt

====
